---- MODULE Spec2Model ----
(***************************************************************************)
(* Model of packages/rust-engine/src/lib.rs: the sandwich detector         *)
(* detect_mev and its call-data heuristic a_b_a_path_matches.              *)
(*                                                                         *)
(* One call of detect_mev is one step: the JSON text is decoded, the three *)
(* nested loops run over the decoded vector, and the vector of attacks is  *)
(* serialised and returned, or the call ends in a Rust panic.              *)
(***************************************************************************)
EXTENDS Integers, Sequences, FiniteSets, TLC

VARIABLES
    input,             \* tx_batch_json, as the JSON value the text denotes
    pc,                \* "called" | "returned" | "panicked"
    transactions,      \* Vec<Transaction> after decoding
    detected_attacks,  \* Vec<SandwichAttack>
    origins,           \* batch positions <<v, f, b>> of the loops at each push
    panic_at,          \* loop positions <<v, f, b>> at the panic, <<>> if none
    output             \* the returned JSON list

vars == <<input, pc, transactions, detected_attacks, origins, panic_at, output>>

(***************************************************************************)
(* Bounds and input alphabets                                              *)
(***************************************************************************)
MaxBatch == 2
LongBatch == 4

UNISWAP_V2_ROUTER == "0x7a250956808f5c3d7c4853740a6d7e444e9aced8"
OtherContract == "0x00000000000000000000000000000000000000cc"
Victim == "0x00000000000000000000000000000000000000a1"
Attacker == "0x00000000000000000000000000000000000000a2"
Senders == {Victim, Attacker}

\* Option<H160>: None is the empty sequence, Some(a) the sequence <<a>>.
None == <<>>
Some(a) == <<a>>
ToValues == {Some(UNISWAP_V2_ROUTER), Some(OtherContract), None}

GasPrices == {1, 2, 3}

\* The threshold and the slot width of a_b_a_path_matches.
MinDataLen == 74
TwoSlots == 128
OneSlot == 64

Repeat(c, n) == [i \in 1..n |-> c]
TOKEN_A == Repeat("a", OneSlot)
TOKEN_B == Repeat("b", OneSlot)
Selector == <<"0", "x", "3", "8", "e", "d", "1", "7", "3", "9">>

\* Call-data strings are carried in the state by name; Calldata gives the
\* characters of each.  All are ASCII, so a character is a byte and every
\* index is a character boundary.
CalldataTable ==
    [empty  |-> <<>>,
     len73  |-> Repeat("a", MinDataLen - 1),
     len74  |-> Repeat("a", MinDataLen),
     len127 |-> Repeat("a", TwoSlots - 1),
     AB     |-> TOKEN_A \o TOKEN_B,
     BA     |-> TOKEN_B \o TOKEN_A,
     selAB  |-> Selector \o TOKEN_A \o TOKEN_B,
     selBA  |-> Selector \o TOKEN_B \o TOKEN_A]
Calldata(name) == CalldataTable[name]
AllDataNames == DOMAIN CalldataTable
DataNames == {"len73", "len74", "AB", "selBA"}
CoreDataNames == {"AB", "selBA"}

HashOf(i) == <<"hash", i>>

(***************************************************************************)
(* The wire format.  A JSON record carries the six fields under their wire *)
(* names; `defects` lists what is wrong with it: <<field, "missing">> or   *)
(* <<field, "illtyped">>.  The value of a defective field is never read.   *)
(* `shape` is "array" for a complete JSON array, "truncated" for a text    *)
(* cut after the records listed, "not_array" for any other JSON value.     *)
(***************************************************************************)
Bodies ==
    [from : Senders, to : ToValues, gasPrice : GasPrices, data : DataNames]

\* Router-bound swaps whose call data follows the role the gas price allows:
\* the highest price carries the path A, B, the lowest the path B, A or a
\* string of 74 characters.
SwapKinds ==
    {<<3, "AB">>, <<2, "len73">>, <<1, "selBA">>, <<1, "len74">>}
SwapBodies ==
    {[from |-> s, to |-> Some(UNISWAP_V2_ROUTER), gasPrice |-> k[1], data |-> k[2]] :
        s \in Senders, k \in SwapKinds}

RawRecord(body, h, defects) ==
    [hash |-> HashOf(h), from |-> body.from, to |-> body.to, value |-> 0,
     data |-> body.data, gasPrice |-> body.gasPrice, defects |-> defects]

\* The JSON value of a text: bodies bs, the hash of record i numbered h[i],
\* defect d (or none, for d = <<>>) in record at.
Json(shape, bs, h, at, d) ==
    [shape |-> shape,
     records |-> [i \in DOMAIN bs |->
                     RawRecord(bs[i], h[i], IF i = at /\ d # <<>> THEN {d} ELSE {})]]

Positions(n) == [i \in 1..n |-> i]

\* The scenarios of the specification: a victim, a front-run and a
\* back-run.  Scenario A has the attacker's front-run pay more and the
\* attacker's back-run pay less than the victim, with reversed paths;
\* scenarios B, C and D change the back-run's sender, the paths and the
\* lengths of the call data.
Scenario(fd, fgas, bfrom, bto, bgas, bd) ==
    <<[from |-> Victim, to |-> Some(UNISWAP_V2_ROUTER), gasPrice |-> 2, data |-> "len74"],
      [from |-> Attacker, to |-> Some(UNISWAP_V2_ROUTER), gasPrice |-> fgas, data |-> fd],
      [from |-> bfrom, to |-> bto, gasPrice |-> bgas, data |-> bd]>>
ScenarioA(fd, bd, bto) == Scenario(fd, 3, Attacker, bto, 1, bd)
Scenarios ==
    {Scenario(fd, fgas, bfrom, bto, bgas, bd) :
        fd \in AllDataNames, fgas \in GasPrices, bfrom \in Senders,
        bto \in ToValues, bgas \in GasPrices, bd \in AllDataNames}
CoreScenarios ==
    {ScenarioA(fd, bd, bto) :
        fd \in CoreDataNames, bd \in CoreDataNames, bto \in ToValues}

\* Numberings of the hashes of n records in which a hash repeats an earlier one.
HashPatterns(n) ==
    {h \in [1..n -> 1..n] : \A i \in 1..n : h[i] <= i} \ {Positions(n)}

\* What may be wrong with one record.
FieldDefects ==
    {<<"value", "missing">>, <<"gasPrice", "illtyped">>, <<"to", "missing">>}

\* The inputs of the model:
\*  - every batch of at most MaxBatch well-formed records with distinct hashes;
\*  - the batches of LongBatch router-bound swaps;
\*  - the scenarios;
\*  - the scenarios with reversed or equal paths, with repeated hashes, as a
\*    text that is cut or is no array, and with one defective record.
IsInput(inp) ==
    \/ \E n \in 0..MaxBatch : \E bs \in [1..n -> Bodies] :
         inp = Json("array", bs, Positions(n), 0, <<>>)
    \/ \E bs \in [1..LongBatch -> SwapBodies] :
         inp = Json("array", bs, Positions(LongBatch), 0, <<>>)
    \/ \E bs \in Scenarios :
         inp = Json("array", bs, Positions(Len(bs)), 0, <<>>)
    \/ \E bs \in CoreScenarios :
         \/ \E h \in HashPatterns(Len(bs)) :
              inp = Json("array", bs, h, 0, <<>>)
         \/ \E shape \in {"truncated", "not_array"} :
              inp = Json(shape, bs, Positions(Len(bs)), 0, <<>>)
         \/ \E at \in 1..Len(bs) : \E d \in FieldDefects :
              inp = Json("array", bs, Positions(Len(bs)), at, d)

(***************************************************************************)
(* serde_json::from_str::<Vec<Transaction>>                                *)
(***************************************************************************)
\* A faulty variant, to test the properties: `value` is defaulted instead of required.
RecordDecodesLenient(r) ==
    \A d \in r.defects : d = <<"to", "missing">> \/ d[1] = "value"

\* A record decodes when every field is well typed and every field but the
\* Option `to` is present; an absent `to` decodes to None.
RecordDecodes(r) == \A d \in r.defects : d = <<"to", "missing">>

\* struct Transaction; `from` is renamed to sender, `gasPrice` to gas_price.
Transaction(r) ==
    [hash |-> r.hash,
     sender |-> r.from,
     to |-> IF <<"to", "missing">> \in r.defects THEN None ELSE r.to,
     value |-> r.value,
     data |-> r.data,
     gas_price |-> r.gasPrice]

from_str(inp) ==
    IF inp.shape = "array"
       /\ \A i \in 1..Len(inp.records) : RecordDecodes(inp.records[i])
    THEN [ok |-> TRUE,
          txs |-> [i \in 1..Len(inp.records) |-> Transaction(inp.records[i])]]
    ELSE [ok |-> FALSE, txs |-> <<>>]

(***************************************************************************)
(* usize arithmetic and string slicing.  A usize is written in two's       *)
(* complement: a negative integer -k stands for the wrapped value          *)
(* 2^w - k, which is above every string length whatever the width w.       *)
(***************************************************************************)
UsizeLess(a, b) == IF (a < 0) = (b < 0) THEN a < b ELSE b < 0

\* a - b: with overflow checks (a debug build) an underflow panics, without
\* them (a release build) it wraps.
UsizeSub(a, b, overflow_checks) ==
    IF a >= b THEN [ok |-> TRUE, val |-> a - b]
    ELSE IF overflow_checks THEN [ok |-> FALSE, val |-> 0]
    ELSE [ok |-> TRUE, val |-> a - b]

\* &s[begin..end]: panics unless begin <= end <= s.len().
StrSlice(s, begin, end) ==
    IF UsizeLess(end, begin) \/ UsizeLess(Len(s), end)
    THEN [ok |-> FALSE, str |-> <<>>]
    ELSE [ok |-> TRUE, str |-> SubSeq(s, begin + 1, end)]

\* The last two slots of one call-data string: lines 107-108 and 110-111.
TailTokens(data, overflow_checks) ==
    LET start == UsizeSub(Len(data), TwoSlots, overflow_checks)
        mid == UsizeSub(Len(data), OneSlot, overflow_checks)
    IN  IF ~start.ok \/ ~mid.ok THEN [ok |-> FALSE, a |-> <<>>, b |-> <<>>]
        ELSE LET token_a == StrSlice(data, start.val, mid.val)
                 token_b == StrSlice(data, mid.val, Len(data))
             IN  IF ~token_a.ok \/ ~token_b.ok
                 THEN [ok |-> FALSE, a |-> <<>>, b |-> <<>>]
                 ELSE [ok |-> TRUE, a |-> token_a.str, b |-> token_b.str]

\* A faulty variant, to test the properties: the length test joins its two halves with && instead of ||.
TooShortBoth(frontrun_data, backrun_data) ==
    Len(frontrun_data) < MinDataLen /\ Len(backrun_data) < MinDataLen

TooShort(frontrun_data, backrun_data) ==
    Len(frontrun_data) < MinDataLen \/ Len(backrun_data) < MinDataLen

\* fn a_b_a_path_matches: "true", "false", or "panic".
a_b_a_path_matches(frontrun_data, backrun_data, overflow_checks) ==
    IF TooShort(frontrun_data, backrun_data) THEN "false"
    ELSE LET front == TailTokens(frontrun_data, overflow_checks)
             back == TailTokens(backrun_data, overflow_checks)
         IN  IF ~front.ok \/ ~back.ok THEN "panic"
             ELSE IF front.a = back.b /\ front.b = back.a THEN "true"
             ELSE "false"

(***************************************************************************)
(* The three nested loops of detect_mev                                    *)
(***************************************************************************)
\* Condition 1, line 58.
VictimSkipped(potential_victim) ==
    potential_victim.to # Some(UNISWAP_V2_ROUTER)

\* A faulty variant, to test the properties: a front-run may pay the victim's gas price.
FrontrunSkippedNonStrict(potential_victim, potential_frontrun) ==
    \/ potential_frontrun.to # Some(UNISWAP_V2_ROUTER)
    \/ potential_frontrun.sender = potential_victim.sender
    \/ potential_frontrun.gas_price < potential_victim.gas_price

\* Condition 2, lines 65-67.
FrontrunSkipped(potential_victim, potential_frontrun) ==
    \/ potential_frontrun.to # Some(UNISWAP_V2_ROUTER)
    \/ potential_frontrun.sender = potential_victim.sender
    \/ potential_frontrun.gas_price <= potential_victim.gas_price

\* A faulty variant, to test the properties: the back-run must be router-bound too.
BackrunSkippedRouterOnly(potential_victim, potential_frontrun, potential_backrun) ==
    \/ potential_backrun.to # Some(UNISWAP_V2_ROUTER)
    \/ potential_backrun.sender # potential_frontrun.sender
    \/ potential_backrun.gas_price >= potential_victim.gas_price

\* Condition 3, lines 75-76.
BackrunSkipped(potential_victim, potential_frontrun, potential_backrun) ==
    \/ potential_backrun.sender # potential_frontrun.sender
    \/ potential_backrun.gas_price >= potential_victim.gas_price

\* A faulty variant, to test the properties: the attacker is copied from the victim.
SandwichAttackOfVictim(potential_victim, potential_frontrun, potential_backrun) ==
    [victim_tx_hash |-> potential_victim.hash,
     attacker |-> potential_victim.sender,
     frontrun_tx_hash |-> potential_frontrun.hash,
     backrun_tx_hash |-> potential_backrun.hash]

\* A faulty variant, to test the properties: the front-run hash is copied from the victim.
SandwichAttackVictimHash(potential_victim, potential_frontrun, potential_backrun) ==
    [victim_tx_hash |-> potential_victim.hash,
     attacker |-> potential_frontrun.sender,
     frontrun_tx_hash |-> potential_victim.hash,
     backrun_tx_hash |-> potential_backrun.hash]

\* struct SandwichAttack as built at lines 84-89.
SandwichAttack(potential_victim, potential_frontrun, potential_backrun) ==
    [victim_tx_hash |-> potential_victim.hash,
     attacker |-> potential_frontrun.sender,
     frontrun_tx_hash |-> potential_frontrun.hash,
     backrun_tx_hash |-> potential_backrun.hash]

\* A faulty variant, to test the properties: the record is inserted at the front of the vector.
PushFront(acc, attack, at) ==
    [acc EXCEPT !.attacks = <<attack>> \o @, !.origins = <<at>> \o @]

\* detected_attacks.push(..), with the loop positions of the push.
Push(acc, attack, at) ==
    [acc EXCEPT !.attacks = Append(@, attack), !.origins = Append(@, at)]

EmptyScan == [attacks |-> <<>>, origins |-> <<>>, panic_at |-> <<>>]

RECURSIVE BackrunLoop(_, _, _, _, _, _)
\* for potential_backrun in &transactions, from position b on.
BackrunLoop(txs, v, f, b, acc, overflow_checks) ==
    IF b > Len(txs) \/ acc.panic_at # <<>> THEN acc
    ELSE IF BackrunSkipped(txs[v], txs[f], txs[b])
    THEN BackrunLoop(txs, v, f, b + 1, acc, overflow_checks)
    ELSE LET m == a_b_a_path_matches(Calldata(txs[f].data), Calldata(txs[b].data),
                                     overflow_checks)
         IN  IF m = "panic" THEN [acc EXCEPT !.panic_at = <<v, f, b>>]
             ELSE IF m = "true"
             THEN BackrunLoop(txs, v, f, b + 1,
                              Push(acc, SandwichAttack(txs[v], txs[f], txs[b]),
                                   <<v, f, b>>),
                              overflow_checks)
             ELSE BackrunLoop(txs, v, f, b + 1, acc, overflow_checks)

RECURSIVE FrontrunLoop(_, _, _, _, _)
\* for potential_frontrun in &transactions, from position f on.
FrontrunLoop(txs, v, f, acc, overflow_checks) ==
    IF f > Len(txs) \/ acc.panic_at # <<>> THEN acc
    ELSE IF FrontrunSkipped(txs[v], txs[f])
    THEN FrontrunLoop(txs, v, f + 1, acc, overflow_checks)
    ELSE FrontrunLoop(txs, v, f + 1,
                      BackrunLoop(txs, v, f, 1, acc, overflow_checks),
                      overflow_checks)

RECURSIVE VictimLoop(_, _, _, _)
\* for potential_victim in &transactions, from position v on.
VictimLoop(txs, v, acc, overflow_checks) ==
    IF v > Len(txs) \/ acc.panic_at # <<>> THEN acc
    ELSE IF VictimSkipped(txs[v])
    THEN VictimLoop(txs, v + 1, acc, overflow_checks)
    ELSE VictimLoop(txs, v + 1,
                    FrontrunLoop(txs, v, 1, acc, overflow_checks),
                    overflow_checks)

\* serde_json::to_string(&detected_attacks): one JSON object per record, in
\* the order of the vector.
to_string(attacks) ==
    [i \in 1..Len(attacks) |->
        [victim_tx_hash |-> attacks[i].victim_tx_hash,
         attacker |-> attacks[i].attacker,
         frontrun_tx_hash |-> attacks[i].frontrun_tx_hash,
         backrun_tx_hash |-> attacks[i].backrun_tx_hash]]

(***************************************************************************)
(* The state machine: one call of detect_mev                               *)
(***************************************************************************)
Init ==
    /\ IsInput(input)
    /\ pc = "called"
    /\ transactions = <<>>
    /\ detected_attacks = <<>>
    /\ origins = <<>>
    /\ panic_at = <<>>
    /\ output = <<>>

\* Lines 42-45: the text does not decode, "[]" is returned.
ParseError ==
    /\ pc = "called"
    /\ ~from_str(input).ok
    /\ pc' = "returned"
    /\ output' = <<>>
    /\ UNCHANGED <<input, transactions, detected_attacks, origins, panic_at>>

\* Lines 42-95: the text decodes and the loops run.  Either they run to
\* their end and the attacks are serialised and returned, or a slice of
\* a_b_a_path_matches panics and nothing is returned.  The build, with or
\* without overflow checks, is not known.
Detect ==
    /\ pc = "called"
    /\ from_str(input).ok
    /\ \E overflow_checks \in BOOLEAN :
         LET txs == from_str(input).txs
             scan == VictimLoop(txs, 1, EmptyScan, overflow_checks)
         IN  /\ transactions' = txs
             /\ detected_attacks' = scan.attacks
             /\ origins' = scan.origins
             /\ panic_at' = scan.panic_at
             /\ \/ /\ scan.panic_at = <<>>
                   /\ pc' = "returned"
                   /\ output' = to_string(scan.attacks)
                \/ /\ scan.panic_at # <<>>
                   /\ pc' = "panicked"
                   /\ output' = output
    /\ input' = input

Next == ParseError \/ Detect

Spec == Init /\ [][Next]_vars

(***************************************************************************)
(* Vocabulary of the properties                                            *)
(***************************************************************************)
Range(seq) == {seq[i] : i \in 1..Len(seq)}
Triples == (1..Len(transactions)) \X (1..Len(transactions)) \X (1..Len(transactions))
LexLess(s, t) ==
    \/ s[1] < t[1]
    \/ s[1] = t[1] /\ s[2] < t[2]
    \/ s[1] = t[1] /\ s[2] = t[2] /\ s[3] < t[3]

V(t) == transactions[t[1]]
F(t) == transactions[t[2]]
B(t) == transactions[t[3]]

\* A batch is well formed when the text is a complete array and no record
\* has a field of the wrong type or lacks a field other than the optional to.
WellFormedRecord(r) ==
    \A d \in r.defects : d[1] = "to" /\ d[2] = "missing"
WellFormed(inp) ==
    inp.shape = "array" /\ \A i \in 1..Len(inp.records) : WellFormedRecord(inp.records[i])

RouterBound(tx) == tx.to = Some(UNISWAP_V2_ROUTER)

\* The role conditions of the specification's candidate enumeration.
RoleConditions(victim, frontrun, backrun) ==
    /\ RouterBound(victim)
    /\ RouterBound(frontrun)
    /\ frontrun.sender # victim.sender
    /\ frontrun.gas_price > victim.gas_price
    /\ backrun.sender = frontrun.sender
    /\ backrun.gas_price < victim.gas_price

\* The k-th 64-character word from the end of a string, as far as the string
\* has it.
Max(a, b) == IF a > b THEN a ELSE b
WordFromEnd(s, k) == SubSeq(s, Max(1, Len(s) - k * OneSlot + 1), Len(s) - (k - 1) * OneSlot)

\* pathsReverse of the specification.
pathsReverse(frontData, backData) ==
    /\ Len(frontData) >= MinDataLen
    /\ Len(backData) >= MinDataLen
    /\ WordFromEnd(frontData, 2) = WordFromEnd(backData, 1)
    /\ WordFromEnd(frontData, 1) = WordFromEnd(backData, 2)

Qualifies(t) ==
    /\ RoleConditions(V(t), F(t), B(t))
    /\ pathsReverse(Calldata(F(t).data), Calldata(B(t).data))

\* The record the specification asks for a triple.
AttackOf(t) ==
    [victim_tx_hash |-> V(t).hash, attacker |-> F(t).sender,
     frontrun_tx_hash |-> F(t).hash, backrun_tx_hash |-> B(t).hash]

Done == pc # "called"

\* The call applied the path-matching predicate to the pair (F, B) of t:
\* the loops came to t and t passed the three role conditions.
PathApplied(t) ==
    /\ RoleConditions(V(t), F(t), B(t))
    /\ \/ pc = "returned"
       \/ pc = "panicked" /\ (t = panic_at \/ LexLess(t, panic_at))

\* The attacks the call has emitted: those pushed and those returned.
Emitted == Range(detected_attacks) \cup Range(output)

HashesUnique ==
    \A i, j \in 1..Len(transactions) :
        transactions[i].hash = transactions[j].hash => i = j
TxByHash(h) == CHOOSE tx \in Range(transactions) : tx.hash = h

(***************************************************************************)
(* C1. For every well-formed batch the call returns exactly one attack     *)
(* record for each triple of positions that meets the role conditions and  *)
(* the path-matching predicate, and nothing else: the output is that of    *)
(* the exhaustive triple scan.                                             *)
(***************************************************************************)
C1_ExhaustiveScan ==
    (Done /\ WellFormed(input)) =>
        /\ pc = "returned"
        /\ Len(output) = Len(origins)
        /\ \A i \in 1..Len(origins) : output[i] = AttackOf(origins[i])
        /\ \A t \in Triples :
             Cardinality({i \in 1..Len(origins) : origins[i] = t})
                 = IF Qualifies(t) THEN 1 ELSE 0

(***************************************************************************)
(* C2. Detection is total: on a well-formed batch the call never panics,   *)
(* whatever the lengths of the call-data strings.                          *)
(***************************************************************************)
C2_NeverPanics == WellFormed(input) => pc # "panicked"

(***************************************************************************)
(* C3. An input that does not decode into a well-formed batch yields the   *)
(* empty list and no fault; no attack comes from its well-formed records.  *)
(***************************************************************************)
C3_MalformedYieldsEmpty ==
    (Done /\ ~WellFormed(input)) =>
        /\ pc = "returned"
        /\ output = <<>>
        /\ detected_attacks = <<>>

\* A malformed input was answered, and its records hold a sandwich: the
\* record that lacks `value` would be the front-run of one.
C3_Witness ==
    /\ pc = "returned"
    /\ ~WellFormed(input)
    /\ Len(input.records) = 3
    /\ <<"value", "missing">> \in input.records[2].defects
    /\ LET v == Transaction(input.records[1])
           f == Transaction(input.records[2])
           b == Transaction(input.records[3])
       IN  /\ RoleConditions(v, f, b)
           /\ pathsReverse(Calldata(f.data), Calldata(b.data))

(***************************************************************************)
(* C4. For every emitted attack the gas prices are strictly ordered:       *)
(* front-run above victim above back-run.                                  *)
(***************************************************************************)
C4_GasOrdering ==
    /\ Len(detected_attacks) = Len(origins)
    /\ \A i \in 1..Len(origins) :
         LET t == origins[i]
         IN  /\ F(t).gas_price > V(t).gas_price
             /\ V(t).gas_price > B(t).gas_price

\* An attack was returned from a batch in which another transaction of the
\* attacker pays exactly the victim's gas price.
C4_Witness ==
    /\ pc = "returned"
    /\ \E i \in 1..Len(origins) : \E k \in 1..Len(transactions) :
         /\ output[i] = AttackOf(origins[i])
         /\ transactions[k].sender = F(origins[i]).sender
         /\ transactions[k].gas_price = V(origins[i]).gas_price

(***************************************************************************)
(* C5. With unique hashes, for every emitted attack the transactions named *)
(* by frontrun_tx_hash and backrun_tx_hash have the same sender, and that  *)
(* sender is the attacker field.                                           *)
(***************************************************************************)
C5_SameAttacker ==
    HashesUnique =>
        \A a \in Emitted :
            /\ TxByHash(a.frontrun_tx_hash).sender = a.attacker
            /\ TxByHash(a.backrun_tx_hash).sender = a.attacker

\* An attack was returned from a batch of unique hashes in which both
\* senders occur.
C5_Witness ==
    /\ pc = "returned"
    /\ HashesUnique
    /\ output # <<>>
    /\ \E tx \in Range(transactions) : tx.sender # output[1].attacker

(***************************************************************************)
(* C6. With unique hashes no emitted attack names the victim as its        *)
(* front-run or as its back-run; the loops never select the victim's own   *)
(* position for either.                                                    *)
(***************************************************************************)
C6_NoSelfMatch ==
    /\ \A i \in 1..Len(origins) :
         origins[i][2] # origins[i][1] /\ origins[i][3] # origins[i][1]
    /\ HashesUnique =>
         \A a \in Emitted :
             /\ a.frontrun_tx_hash # a.victim_tx_hash
             /\ a.backrun_tx_hash # a.victim_tx_hash

\* An attack was returned from a batch of unique hashes whose victim comes
\* after its front-run in the batch, so the inner loops passed over it.
C6_Witness ==
    /\ pc = "returned"
    /\ HashesUnique
    /\ \E i \in 1..Len(origins) :
         /\ output[i].victim_tx_hash = V(origins[i]).hash
         /\ origins[i][2] < origins[i][1]

(***************************************************************************)
(* C7. The victim and the front-run of every emitted attack are bound to   *)
(* the router.  The back-run need not be: wherever the predicate was       *)
(* applied and holds, the attack is emitted also when the back-run's to    *)
(* is another address or absent; Scenario A yields exactly one attack.     *)
(***************************************************************************)
C7_RouterBound ==
    /\ \A i \in 1..Len(origins) :
         RouterBound(V(origins[i])) /\ RouterBound(F(origins[i]))
    /\ \A t \in Triples :
         (/\ PathApplied(t)
          /\ t # panic_at
          /\ ~RouterBound(B(t))
          /\ pathsReverse(Calldata(F(t).data), Calldata(B(t).data)))
             => t \in Range(origins)
    /\ \A bto \in ToValues :
         (Done /\ input = Json("array", ScenarioA("selAB", "selBA", bto), Positions(3), 0, <<>>))
             => /\ pc = "returned"
                /\ output = <<AttackOf(<<1, 2, 3>>)>>

\* An attack was returned whose back-run has no `to` at all.
C7_Witness ==
    /\ pc = "returned"
    /\ \E i \in 1..Len(origins) :
         /\ output[i] = AttackOf(origins[i])
         /\ B(origins[i]).to = None

(***************************************************************************)
(* C8. The attacks appear in the order of the nested enumeration: sorted   *)
(* by the positions of victim, front-run and back-run in the batch, each   *)
(* record built from the transactions at those positions.                  *)
(***************************************************************************)
C8_EnumerationOrder ==
    /\ Len(detected_attacks) = Len(origins)
    /\ \A i, j \in 1..Len(origins) : i < j => LexLess(origins[i], origins[j])
    /\ \A i \in 1..Len(origins) : detected_attacks[i] = AttackOf(origins[i])
    /\ pc = "returned" =>
         /\ Len(output) = Len(origins)
         /\ \A i \in 1..Len(origins) : output[i] = AttackOf(origins[i])

\* Two attacks on different victims were returned.
C8_Witness ==
    /\ pc = "returned"
    /\ Len(output) >= 2
    /\ output[1].victim_tx_hash # output[2].victim_tx_hash

(***************************************************************************)
(* C9. When both call-data strings have at least 74 characters the         *)
(* predicate returns a boolean: true iff the last two 64-character words   *)
(* of the front-run are those of the back-run in reverse.                  *)
(***************************************************************************)
C9_LongDataGivesBoolean ==
    \A t \in Triples :
        (/\ PathApplied(t)
         /\ Len(Calldata(F(t).data)) >= MinDataLen
         /\ Len(Calldata(B(t).data)) >= MinDataLen)
            => /\ t # panic_at
               /\ t \in Range(origins)
                    <=> pathsReverse(Calldata(F(t).data), Calldata(B(t).data))

(***************************************************************************)
(* C10. When the call data of the front-run or of the back-run has fewer   *)
(* than 74 characters the predicate returns false: it does not panic and   *)
(* no attack is emitted for that pair, whatever the other conditions.      *)
(***************************************************************************)
C10_ShortDataRejected ==
    \A t \in Triples :
        (\/ Len(Calldata(F(t).data)) < MinDataLen
         \/ Len(Calldata(B(t).data)) < MinDataLen)
            => /\ t # panic_at
               /\ t \notin Range(origins)

\* The call returned after the predicate met a short front-run string with
\* a full-length back-run string.
C10_Witness ==
    /\ pc = "returned"
    /\ \E t \in Triples :
         /\ PathApplied(t)
         /\ Len(Calldata(F(t).data)) < MinDataLen
         /\ Len(Calldata(B(t).data)) >= TwoSlots

====
